---- MODULE Spec2Model ----
(***************************************************************************)
(* Model of the face-embedding vector index (FaceVectorIndex) and of the   *)
(* line-oriented JSON-RPC server that drives it.                           *)
(*                                                                         *)
(* Numbers: embeddings are integer vectors; a stored (float32) vector is   *)
(* a fixed-point vector with Scale units per 1.0, a squared distance has   *)
(* Scale*Scale units per 1.0 and a similarity SimScale units per 1.0.      *)
(***************************************************************************)
EXTENDS Integers, Sequences, FiniteSets, TLC

VARIABLES
    index,          \* self.index: the vectors of the IndexFlatL2, in order
    id_map,         \* self.id_map: dict faiss_id -> face_profile_id (ordered)
    reverse_map,    \* self.reverse_map: dict face_profile_id -> faiss_id
    redis_client,   \* self.redis_client: "connected" or "none" (None)
    store,          \* the Redis database: a function key -> value
    call,           \* the last public call made on the engine
    ret,            \* what that call returned
    saves,          \* what each save_to_redis made by that call returned
    server,         \* the server loop: "running" or "stopped"
    line,           \* the last line the loop has taken from stdin
    nlines,         \* non-empty lines the loop has taken from stdin
    nresponses,     \* lines the loop has written to stdout
    response        \* the last response written

engine == <<index, id_map, reverse_map, redis_client>>
serverVars == <<server, line, nlines, nresponses, response>>
vars == <<index, id_map, reverse_map, redis_client, store, call, ret, saves,
          server, line, nlines, nresponses, response>>

----------------------------------------------------------------------------
(* Program constants *)

dimension == 2
Scale == 10
SimScale == 100000
HIGH_CONFIDENCE_THRESHOLD == 85000
MEDIUM_CONFIDENCE_THRESHOLD == 70000
index_key == "faiss:face_index"
map_key == "faiss:id_map"

(* Bounds of the model *)

MaxVectors == 2
MaxRecords == 2
MaxLines == 3
MaxStored == 3

None == -1
ProfileIds == {0, 1}
Embeddings == {<<1, 0>>, <<0, 1>>, <<1, 0, 0>>}
Ks == {1, 2}
ExcludeIds == {None} \cup ProfileIds

----------------------------------------------------------------------------
(* Ordered dictionaries: a Python dict is a sequence of <<key, value>>     *)
(* pairs in insertion order.                                               *)

EmptyDict == <<>>
Keys(d) == {d[i][1] : i \in DOMAIN d}
Values(d) == {d[i][2] : i \in DOMAIN d}
Get(d, k) == d[CHOOSE i \in DOMAIN d : d[i][1] = k][2]
Put(d, k, v) ==
    IF k \in Keys(d)
    THEN [i \in DOMAIN d |-> IF d[i][1] = k THEN <<k, v>> ELSE d[i]]
    ELSE Append(d, <<k, v>>)

\* {v: k for k, v in d.items()}: a later pair overrides an earlier one
Inverted(d) ==
    [v \in Values(d) |->
        d[CHOOSE i \in DOMAIN d :
            /\ d[i][2] = v
            /\ \A j \in DOMAIN d : d[j][2] = v => j <= i][1]]

EmptyMap == [v \in {} |-> 0]
Bind(m, k, v) == [x \in DOMAIN m \cup {k} |-> IF x = k THEN v ELSE m[x]]

----------------------------------------------------------------------------
(* Metric: normalisation, squared L2 distance, similarity, confidence      *)

Max(a, b) == IF a >= b THEN a ELSE b
Min(a, b) == IF a <= b THEN a ELSE b

RECURSIVE SumSq(_)
SumSq(e) == IF e = <<>> THEN 0 ELSE e[1] * e[1] + SumSq(Tail(e))

ISqrt(n) == CHOOSE r \in 0..n : r * r <= n /\ (r + 1) * (r + 1) > n

\* np.linalg.norm(embedding), in 1/Scale units
Norm(e) == ISqrt(SumSq(e) * Scale * Scale)

\* embedding / norm when norm > 0, the embedding itself otherwise
Normalize(e) ==
    IF Norm(e) > 0
    THEN [i \in 1..Len(e) |-> (e[i] * Scale * Scale) \div Norm(e)]
    ELSE [i \in 1..Len(e) |-> e[i] * Scale]

RECURSIVE SqDist(_, _)
SqDist(u, v) ==
    IF u = <<>> THEN 0
    ELSE (u[1] - v[1]) * (u[1] - v[1]) + SqDist(Tail(u), Tail(v))

\* max(0.0, 1.0 - dist / 4.0)
Similarity(dist) ==
    Max(0, SimScale - (dist * SimScale) \div (4 * Scale * Scale))

\* the tiers with strict comparisons
Confidence_Strict(similarity) ==
    IF similarity > HIGH_CONFIDENCE_THRESHOLD THEN "high"
    ELSE IF similarity > MEDIUM_CONFIDENCE_THRESHOLD THEN "medium"
    ELSE "low"

Confidence(similarity) ==
    IF similarity >= HIGH_CONFIDENCE_THRESHOLD THEN "high"
    ELSE IF similarity >= MEDIUM_CONFIDENCE_THRESHOLD THEN "medium"
    ELSE "low"

----------------------------------------------------------------------------
(* The engine's in-memory state as a value                                 *)

Engine(ix, im, rm) == [index |-> ix, id_map |-> im, reverse_map |-> rm]
EmptyEngine == Engine(<<>>, EmptyDict, EmptyMap)
Current == Engine(index, id_map, reverse_map)
ntotal(eng) == Len(eng.index)

\* index.reconstruct(faiss_id)
Reconstruct(eng, faiss_id) == eng.index[faiss_id + 1]

----------------------------------------------------------------------------
(* Serialisation: faiss.serialize_index lays the vectors out as one flat   *)
(* array behind the header (d, ntotal); pickle keeps the dicts as they are *)

SerializeIndex(ix) ==
    [d |-> dimension,
     ntotal |-> Len(ix),
     xb |-> [n \in 1..(Len(ix) * dimension) |->
                ix[((n - 1) \div dimension) + 1][((n - 1) % dimension) + 1]]]

DeserializeIndex(bytes) ==
    [i \in 1..bytes.ntotal |->
        [j \in 1..bytes.d |-> bytes.xb[(i - 1) * bytes.d + j]]]

Mappings(eng) ==
    [id_map |-> eng.id_map,
     reverse_map |-> eng.reverse_map,
     dimension |-> dimension,
     total |-> ntotal(eng)]

EmptyStore == [key \in {} |-> 0]

\* pipe.set(index_key, ...); pipe.set(map_key, ...); pipe.execute()
PipelineExecute(eng) ==
    [key \in {index_key, map_key} |->
        IF key = index_key THEN SerializeIndex(eng.index) ELSE Mappings(eng)]

----------------------------------------------------------------------------
(* add_vector without its trailing save                                    *)

\* add_vector without the check "face_profile_id in self.reverse_map"
AddVectorMem_Unchecked(eng, face_profile_id, embedding) ==
    IF Len(embedding) # dimension
    THEN [eng |-> eng, ok |-> FALSE, error |-> "ValueError"]
    ELSE LET faiss_id == ntotal(eng) IN
         [eng |-> Engine(Append(eng.index, Normalize(embedding)),
                         Put(eng.id_map, faiss_id, face_profile_id),
                         Bind(eng.reverse_map, face_profile_id, faiss_id)),
          ok |-> TRUE,
          error |-> "none"]

\* add_vector taking the number of mappings for the next position
AddVectorMem_CountsMappings(eng, face_profile_id, embedding) ==
    IF face_profile_id \in DOMAIN eng.reverse_map
    THEN [eng |-> eng, ok |-> FALSE, error |-> "none"]
    ELSE IF Len(embedding) # dimension
    THEN [eng |-> eng, ok |-> FALSE, error |-> "ValueError"]
    ELSE LET faiss_id == Len(eng.id_map) IN
         [eng |-> Engine(Append(eng.index, Normalize(embedding)),
                         Put(eng.id_map, faiss_id, face_profile_id),
                         Bind(eng.reverse_map, face_profile_id, faiss_id)),
          ok |-> TRUE,
          error |-> "none"]

AddVectorMem(eng, face_profile_id, embedding) ==
    IF face_profile_id \in DOMAIN eng.reverse_map
    THEN [eng |-> eng, ok |-> FALSE, error |-> "none"]
    ELSE IF Len(embedding) # dimension
    THEN [eng |-> eng, ok |-> FALSE, error |-> "ValueError"]
    ELSE LET faiss_id == ntotal(eng) IN
         [eng |-> Engine(Append(eng.index, Normalize(embedding)),
                         Put(eng.id_map, faiss_id, face_profile_id),
                         Bind(eng.reverse_map, face_profile_id, faiss_id)),
          ok |-> TRUE,
          error |-> "none"]

----------------------------------------------------------------------------
(* search_similar                                                          *)

SearchResult(face_profile_id, dist) ==
    [face_profile_id |-> face_profile_id,
     similarity |-> Similarity(dist),
     distance |-> dist,
     confidence_level |-> Confidence(Similarity(dist))]

\* Python truthiness of an Optional[int]
Truthy(x) == x # None /\ x # 0

\* index.search(query, n): the n nearest positions, nearest first; the
\* order among equal distances is not fixed by the library
FaissSearch(eng, query, n) ==
    LET Pos == 0..(ntotal(eng) - 1)
        d(p) == SqDist(query, Reconstruct(eng, p))
    IN  {s \in [1..n -> Pos] :
            /\ \A i, j \in 1..n : i # j => s[i] # s[j]
            /\ \A i \in 1..(n - 1) : d(s[i]) <= d(s[i + 1])
            /\ \A p \in Pos : (\A i \in 1..n : s[i] # p) =>
                                 \A i \in 1..n : d(s[i]) <= d(p)}

\* the loop over zip(distances[0], indices[0])
RECURSIVE Scan(_, _, _, _, _, _, _)
Scan(eng, query, cand, i, k, exclude_id, results) ==
    IF i > Len(cand) THEN results
    ELSE LET idx == cand[i] IN
         IF idx \notin Keys(eng.id_map)
         THEN Scan(eng, query, cand, i + 1, k, exclude_id, results)
         ELSE LET face_profile_id == Get(eng.id_map, idx) IN
              IF Truthy(exclude_id) /\ face_profile_id = exclude_id
              THEN Scan(eng, query, cand, i + 1, k, exclude_id, results)
              ELSE LET dist == SqDist(query, Reconstruct(eng, idx))
                       appended == Append(results,
                                       SearchResult(face_profile_id, dist))
                   IN  IF Len(appended) >= k THEN appended
                       ELSE Scan(eng, query, cand, i + 1, k, exclude_id,
                                 appended)

\* every list search_similar can return
SearchSimilarResults(eng, embedding, k, exclude_id) ==
    IF ntotal(eng) = 0 THEN {<<>>}
    ELSE IF Len(embedding) # dimension THEN {<<>>}
    ELSE IF Min(k * 2, ntotal(eng)) <= 0 THEN {<<>>}
    ELSE {Scan(eng, Normalize(embedding), cand, 1, k, exclude_id, <<>>) :
            cand \in FaissSearch(eng, Normalize(embedding),
                                 Min(k * 2, ntotal(eng)))}

\* check_duplicate, given what its search returned; best_match is a list
\* of at most one record (empty for None)
CheckDuplicateResult(results) ==
    IF results = <<>>
    THEN [is_duplicate |-> FALSE, best_match |-> <<>>]
    ELSE [is_duplicate |-> results[1].similarity >= HIGH_CONFIDENCE_THRESHOLD,
          best_match |-> <<results[1]>>]

----------------------------------------------------------------------------
(* remove_vector without its trailing save                                 *)

\* the pairs of id_map kept by the loop, in iteration order
RECURSIVE Retained(_, _)
Retained(items, face_profile_id) ==
    IF items = <<>> THEN <<>>
    ELSE IF items[1][2] # face_profile_id
         THEN <<items[1]>> \o Retained(Tail(items), face_profile_id)
         ELSE Retained(Tail(items), face_profile_id)

\* remove_vector reconstructing each kept vector at its new position
\* instead of its old one
RemoveVectorMem_NewPositions(eng, face_profile_id) ==
    IF face_profile_id \notin DOMAIN eng.reverse_map
    THEN [eng |-> eng, ok |-> FALSE, error |-> "none"]
    ELSE LET kept == Retained(eng.id_map, face_profile_id)
             vectors == [i \in DOMAIN kept |-> Reconstruct(eng, i - 1)]
             new_id_map == [i \in DOMAIN kept |-> <<i - 1, kept[i][2]>>]
         IN  [eng |-> Engine(vectors, new_id_map, Inverted(new_id_map)),
              ok |-> TRUE,
              error |-> "none"]

RemoveVectorMem(eng, face_profile_id) ==
    IF face_profile_id \notin DOMAIN eng.reverse_map
    THEN [eng |-> eng, ok |-> FALSE, error |-> "none"]
    ELSE LET kept == Retained(eng.id_map, face_profile_id) IN
         IF \E i \in DOMAIN kept : kept[i][1] >= ntotal(eng)
         THEN [eng |-> eng, ok |-> FALSE, error |-> "RuntimeError"]
         ELSE LET vectors == [i \in DOMAIN kept |->
                                 Reconstruct(eng, kept[i][1])]
                  new_id_map == [i \in DOMAIN kept |-> <<i - 1, kept[i][2]>>]
              IN  [eng |-> Engine(vectors, new_id_map, Inverted(new_id_map)),
                   ok |-> TRUE,
                   error |-> "none"]

----------------------------------------------------------------------------
(* load_from_redis: fail names the Redis read that raises, if any          *)

LoadFailures == {"none", "get_index", "get_map"}

\* load_from_redis taking id_map from the snapshot and leaving reverse_map
LoadFromRedis_ForwardOnly(eng, db, fail) ==
    IF fail = "get_index" THEN [eng |-> eng, ok |-> FALSE]
    ELSE IF index_key \notin DOMAIN db THEN [eng |-> eng, ok |-> FALSE]
    ELSE LET loaded == Engine(DeserializeIndex(db[index_key]),
                              eng.id_map, eng.reverse_map)
         IN  IF fail = "get_map" THEN [eng |-> loaded, ok |-> FALSE]
             ELSE IF map_key \notin DOMAIN db
             THEN [eng |-> loaded, ok |-> FALSE]
             ELSE [eng |-> Engine(loaded.index, db[map_key].id_map,
                                  eng.reverse_map),
                   ok |-> TRUE]

LoadFromRedis(eng, db, fail) ==
    IF fail = "get_index" THEN [eng |-> eng, ok |-> FALSE]
    ELSE IF index_key \notin DOMAIN db THEN [eng |-> eng, ok |-> FALSE]
    ELSE LET loaded == Engine(DeserializeIndex(db[index_key]),
                              eng.id_map, eng.reverse_map)
         IN  IF fail = "get_map" THEN [eng |-> loaded, ok |-> FALSE]
             ELSE IF map_key \notin DOMAIN db
             THEN [eng |-> loaded, ok |-> FALSE]
             ELSE [eng |-> Engine(loaded.index, db[map_key].id_map,
                                  db[map_key].reverse_map),
                   ok |-> TRUE]

----------------------------------------------------------------------------
(* save_to_redis: outcome "fail" is a write that raises; the pipeline is   *)
(* a MULTI/EXEC transaction, so a write that raises writes neither key     *)

SaveOutcomes == {"ok", "fail"}

SaveToRedis(eng, client, db, outcome) ==
    IF client = "none" THEN [store |-> db, ok |-> FALSE]
    ELSE IF outcome = "fail" THEN [store |-> db, ok |-> FALSE]
    ELSE [store |-> PipelineExecute(eng), ok |-> TRUE]

\* "if persist and self.redis_client: self.save_to_redis()": the database
\* and the results of the saves made
Persist(eng, client, db, persist, outcome) ==
    IF persist /\ client = "connected"
    THEN [store |-> SaveToRedis(eng, client, db, outcome).store,
          saves |-> <<SaveToRedis(eng, client, db, outcome).ok>>]
    ELSE [store |-> db, saves |-> <<>>]

----------------------------------------------------------------------------
(* Calls and return values                                                 *)

Call(op, face_profile_id, embedding, k, exclude_id, face_profiles) ==
    [op |-> op, face_profile_id |-> face_profile_id, embedding |-> embedding,
     k |-> k, exclude_id |-> exclude_id, face_profiles |-> face_profiles]

Ret(kind, val) == [kind |-> kind, val |-> val]

\* the rows a rebuild can be given: an id under two embeddings, an
\* embedding under two ids, a row of the wrong dimension
Records ==
    {<<0, <<1, 0>>>>, <<0, <<0, 1>>>>, <<1, <<0, 1>>>>, <<1, <<1, 0, 0>>>>}

\* face_profiles: lists of distinct rows, in any order
FaceProfiles ==
    UNION {{rows \in [1..n -> Records] :
               \A i, j \in 1..n : rows[i] = rows[j] => i = j} :
           n \in 0..MaxRecords}

SetEngine(eng) ==
    /\ index' = eng.index
    /\ id_map' = eng.id_map
    /\ reverse_map' = eng.reverse_map

----------------------------------------------------------------------------
(* The public operations in full, trailing save included: each gives the   *)
(* engine, the database, the return value and the saves it leaves          *)

Outcome(eng, db, r, sv) == [eng |-> eng, store |-> db, ret |-> r, saves |-> sv]

\* add_vector undoing the insertion when its save fails
add_vector_Rollback(eng, client, db, face_profile_id, embedding, persist, outcome) ==
    LET r == AddVectorMem(eng, face_profile_id, embedding)
        p == Persist(r.eng, client, db, persist, outcome)
    IN  IF r.ok /\ p.saves # <<FALSE>>
        THEN Outcome(r.eng, p.store, Ret("bool", TRUE), p.saves)
        ELSE Outcome(eng, db, Ret("bool", FALSE), p.saves)

\* add_vector without its trailing save
add_vector_NoPersist(eng, client, db, face_profile_id, embedding, persist, outcome) ==
    LET r == AddVectorMem(eng, face_profile_id, embedding)
    IN  Outcome(r.eng, db, Ret("bool", r.ok), <<>>)

add_vector(eng, client, db, face_profile_id, embedding, persist, outcome) ==
    LET r == AddVectorMem(eng, face_profile_id, embedding)
        p == Persist(r.eng, client, db, persist, outcome)
    IN  IF r.ok THEN Outcome(r.eng, p.store, Ret("bool", TRUE), p.saves)
        ELSE Outcome(r.eng, db, Ret("bool", FALSE), <<>>)

\* remove_vector saving whether or not it removed anything
remove_vector_AlwaysSaves(eng, client, db, face_profile_id, persist, outcome) ==
    LET r == RemoveVectorMem(eng, face_profile_id)
        p == Persist(r.eng, client, db, persist, outcome)
    IN  Outcome(r.eng, p.store, Ret("bool", r.ok), p.saves)

remove_vector(eng, client, db, face_profile_id, persist, outcome) ==
    LET r == RemoveVectorMem(eng, face_profile_id)
        p == Persist(r.eng, client, db, persist, outcome)
    IN  IF r.ok THEN Outcome(r.eng, p.store, Ret("bool", TRUE), p.saves)
        ELSE Outcome(r.eng, db, Ret("bool", FALSE), <<>>)

\* the loop "for face_profile_id, embedding in face_profiles", from the
\* state o the records before have left
RECURSIVE AddAll(_, _, _, _)
AddAll(o, client, face_profiles, outcome) ==
    IF face_profiles = <<>> THEN o
    ELSE LET a == add_vector(o.eng, client, o.store, face_profiles[1][1],
                             face_profiles[1][2], FALSE, outcome)
         IN  AddAll(Outcome(a.eng, a.store, a.ret, o.saves \o a.saves),
                    client, Tail(face_profiles), outcome)

\* rebuild_from_database without the reset of the index and the maps
rebuild_from_database_NoReset(eng, client, db, face_profiles, outcome) ==
    LET added == AddAll(Outcome(eng, db, Ret("bool", TRUE), <<>>),
                        client, face_profiles, outcome)
        p == Persist(added.eng, client, added.store, TRUE, outcome)
    IN  Outcome(added.eng, p.store, Ret("bool", TRUE), added.saves \o p.saves)

rebuild_from_database(eng, client, db, face_profiles, outcome) ==
    LET added == AddAll(Outcome(EmptyEngine, db, Ret("bool", TRUE), <<>>),
                        client, face_profiles, outcome)
        p == Persist(added.eng, client, added.store, TRUE, outcome)
    IN  Outcome(added.eng, p.store, Ret("bool", TRUE), added.saves \o p.saves)

search_similar(eng, db, embedding, k, exclude_id) ==
    {Outcome(eng, db, Ret("results", results), <<>>) :
        results \in SearchSimilarResults(eng, embedding, k, exclude_id)}

check_duplicate(eng, db, embedding, exclude_id) ==
    {Outcome(eng, db, Ret("duplicate", CheckDuplicateResult(results)), <<>>) :
        results \in SearchSimilarResults(eng, embedding, 1, exclude_id)}

get_stats(eng, client, db) ==
    Outcome(eng, db,
            Ret("stats",
                [total_vectors |-> ntotal(eng),
                 dimension |-> dimension,
                 redis_connected |-> client # "none",
                 high_threshold |-> HIGH_CONFIDENCE_THRESHOLD,
                 medium_threshold |-> MEDIUM_CONFIDENCE_THRESHOLD]),
            <<>>)

save_to_redis(eng, client, db, outcome) ==
    LET r == SaveToRedis(eng, client, db, outcome) IN
    Outcome(eng, r.store, Ret("bool", r.ok), <<r.ok>>)

\* the outcomes the trailing save of a call can have
Outcomes(saving) ==
    IF saving /\ redis_client = "connected" THEN SaveOutcomes ELSE {"ok"}

\* the effect of a call on the engine, the database and the return value
Returns(o) ==
    /\ SetEngine(o.eng)
    /\ store' = o.store
    /\ ret' = o.ret
    /\ saves' = o.saves

----------------------------------------------------------------------------
(* The JSON-RPC server: lines, requests and responses                      *)

Methods == {"add_vector", "search_similar", "check_duplicate",
            "remove_vector", "get_stats", "rebuild_from_database"}

\* a method value that is no key of self.methods, and one that cannot be
\* hashed at all (a JSON list or object)
UnknownMethod == "no_such_method"
UnhashableMethod == "[]"

\* the keys a params object holds, with their values
Params(keys, face_profile_id, embedding, k, exclude_id, face_profiles) ==
    [keys |-> keys, face_profile_id |-> face_profile_id,
     embedding |-> embedding, k |-> k, exclude_id |-> exclude_id,
     face_profiles |-> face_profiles]

NoParams == Params({}, None, <<>>, 0, None, <<>>)

RequestIds == {1, 2}
RequestEmbeddings == {<<1, 0>>, <<1, 0, 0>>}
RequestParams ==
    {NoParams} \cup
    {Params({"face_profile_id", "embedding", "k", "face_profiles"},
            id, e, 1, None, <<<<id, e>>>>) :
        id \in ProfileIds, e \in RequestEmbeddings}

Line(kind, id, method, params) ==
    [kind |-> kind, id |-> id, method |-> method, params |-> params]

\* an empty line, a line that is not JSON, a JSON value that is no object
BlankLine == Line("blank", None, "", NoParams)
UnparseableLine == Line("unparseable", None, "", NoParams)
ValueLine == Line("value", None, "", NoParams)
RequestLines ==
    {Line("request", id, method, params) :
        id \in RequestIds,
        method \in Methods \cup {UnknownMethod, UnhashableMethod},
        params \in RequestParams}

NoLine == Line("none", None, "", NoParams)

Response(id, key, code, message, result) ==
    [id |-> id, keys |-> {"jsonrpc", "id", key}, code |-> code,
     message |-> message, result |-> result]

NoResponse == Response(None, "none", 0, "", Ret("none", FALSE))

\* the params keys a handler reads with params[...]
Required(method) ==
    CASE method = "add_vector" -> {"face_profile_id", "embedding"}
      [] method = "search_similar" -> {"embedding"}
      [] method = "check_duplicate" -> {"embedding"}
      [] method = "remove_vector" -> {"face_profile_id"}
      [] method = "get_stats" -> {}
      [] method = "rebuild_from_database" -> {"face_profiles"}

\* self.methods[method](params): every outcome the handler can have; a
\* missing key raises KeyError before the engine is called
Handler(method, params, eng, client, db) ==
    IF ~(Required(method) \subseteq params.keys)
    THEN {[raised |-> TRUE, o |-> Outcome(eng, db, Ret("none", FALSE), <<>>)]}
    ELSE LET k == IF "k" \in params.keys THEN params.k ELSE 10
             exclude_id == IF "exclude_id" \in params.keys
                           THEN params.exclude_id ELSE None
             outs ==
               CASE method = "add_vector" ->
                      {add_vector(eng, client, db, params.face_profile_id,
                                  params.embedding, TRUE, outcome) :
                          outcome \in SaveOutcomes}
                 [] method = "search_similar" ->
                      search_similar(eng, db, params.embedding, k, exclude_id)
                 [] method = "check_duplicate" ->
                      check_duplicate(eng, db, params.embedding, exclude_id)
                 [] method = "remove_vector" ->
                      {remove_vector(eng, client, db, params.face_profile_id,
                                     TRUE, outcome) :
                          outcome \in SaveOutcomes}
                 [] method = "get_stats" -> {get_stats(eng, client, db)}
                 [] method = "rebuild_from_database" ->
                      {rebuild_from_database(eng, client, db,
                                             params.face_profiles, outcome) :
                          outcome \in SaveOutcomes}
         IN  {[raised |-> FALSE, o |-> out] : out \in outs}

\* handle_request for a request whose method can be looked up
handle_request(request, eng, client, db) ==
    IF request.method \notin Methods
    THEN {[o |-> Outcome(eng, db, Ret("none", FALSE), <<>>),
           response |-> Response(request.id, "error", -32601,
                                 "Method not found", Ret("none", FALSE))]}
    ELSE {[o |-> h.o,
           response |-> IF h.raised
                        THEN Response(request.id, "error", -32603,
                                      "KeyError", Ret("none", FALSE))
                        ELSE Response(request.id, "result", 0, "", h.o.ret)] :
            h \in Handler(request.method, request.params, eng, client, db)}

----------------------------------------------------------------------------
(* Initial state: a first engine constructed over an empty database, which *)
(* is reachable or not                                                     *)

Init ==
    /\ index = <<>>
    /\ id_map = EmptyDict
    /\ reverse_map = EmptyMap
    /\ redis_client \in {"connected", "none"}
    /\ store = EmptyStore
    /\ call = Call("__init__", None, <<>>, 0, None, <<>>)
    /\ ret = Ret("none", FALSE)
    /\ saves = <<>>
    /\ server = "running"
    /\ line = NoLine
    /\ nlines = 0
    /\ nresponses = 0
    /\ response = NoResponse

----------------------------------------------------------------------------
(* Actions: one per public operation of FaceVectorIndex                    *)

\* FaceVectorIndex(): a new process builds its engine over the database;
\* a failed ping leaves it without a client, in memory-only mode
Construct ==
    \E ping \in BOOLEAN :
        \E fail \in IF ping THEN LoadFailures ELSE {"none"} :
            /\ IF ping
               THEN /\ redis_client' = "connected"
                    /\ SetEngine(LoadFromRedis(EmptyEngine, store, fail).eng)
               ELSE /\ redis_client' = "none"
                    /\ SetEngine(EmptyEngine)
            /\ call' = Call("__init__", None, <<>>, 0, None, <<>>)
            /\ ret' = Ret("none", FALSE)
            /\ saves' = <<>>
            /\ UNCHANGED <<store, serverVars>>

AddVector ==
    \E face_profile_id \in ProfileIds, embedding \in Embeddings :
        \E outcome \in Outcomes(AddVectorMem(Current, face_profile_id,
                                             embedding).ok) :
            LET o == add_vector(Current, redis_client, store,
                                face_profile_id, embedding, TRUE, outcome)
            IN  /\ ntotal(o.eng) <= MaxVectors
                /\ Returns(o)
                /\ call' = Call("add_vector", face_profile_id, embedding, 0,
                                None, <<>>)
                /\ UNCHANGED <<redis_client, serverVars>>

SearchSimilar ==
    \E embedding \in Embeddings, k \in Ks, exclude_id \in ExcludeIds :
        \E o \in search_similar(Current, store, embedding, k, exclude_id) :
            /\ Returns(o)
            /\ call' = Call("search_similar", None, embedding, k, exclude_id,
                            <<>>)
            /\ UNCHANGED <<redis_client, serverVars>>

CheckDuplicate ==
    \E embedding \in Embeddings, exclude_id \in ExcludeIds :
        \E o \in check_duplicate(Current, store, embedding, exclude_id) :
            /\ Returns(o)
            /\ call' = Call("check_duplicate", None, embedding, 1,
                            exclude_id, <<>>)
            /\ UNCHANGED <<redis_client, serverVars>>

RemoveVector ==
    \E face_profile_id \in ProfileIds :
        \E outcome \in Outcomes(face_profile_id \in DOMAIN reverse_map) :
            /\ Returns(remove_vector(Current, redis_client, store,
                                     face_profile_id, TRUE, outcome))
            /\ call' = Call("remove_vector", face_profile_id, <<>>, 0, None,
                            <<>>)
            /\ UNCHANGED <<redis_client, serverVars>>

RebuildFromDatabase ==
    \E face_profiles \in FaceProfiles, outcome \in Outcomes(TRUE) :
        /\ Returns(rebuild_from_database(Current, redis_client, store,
                                         face_profiles, outcome))
        /\ call' = Call("rebuild_from_database", None, <<>>, 0, None,
                        face_profiles)
        /\ UNCHANGED <<redis_client, serverVars>>

SaveIndex ==
    \E outcome \in Outcomes(TRUE) :
        /\ Returns(save_to_redis(Current, redis_client, store, outcome))
        /\ call' = Call("save_to_redis", None, <<>>, 0, None, <<>>)
        /\ UNCHANGED <<redis_client, serverVars>>

GetStats ==
    /\ Returns(get_stats(Current, redis_client, store))
    /\ call' = Call("get_stats", None, <<>>, 0, None, <<>>)
    /\ UNCHANGED <<redis_client, serverVars>>

\* the database drops the mapping key (eviction, expiry, an operator)
MapKeyLost ==
    /\ map_key \in DOMAIN store
    /\ store' = [key \in DOMAIN store \ {map_key} |-> store[key]]
    /\ UNCHANGED <<engine, call, ret, saves, serverVars>>

\* The engine over its database, every operation but the full rebuild
Next ==
    \/ Construct
    \/ AddVector
    \/ SearchSimilar
    \/ CheckDuplicate
    \/ RemoveVector
    \/ SaveIndex
    \/ GetStats
    \/ MapKeyLost

Spec == Init /\ [][Next]_vars

\* The mutating operations, the full rebuild among them
NextRebuild ==
    \/ Construct
    \/ AddVector
    \/ RemoveVector
    \/ RebuildFromDatabase
    \/ SaveIndex
    \/ MapKeyLost

SpecRebuild == Init /\ [][NextRebuild]_vars

\* add_vector on an index that may hold up to MaxStored vectors, the ones
\* a load has left without a mapping included
AddVectorStored ==
    \E face_profile_id \in ProfileIds, embedding \in Embeddings :
        \E outcome \in Outcomes(AddVectorMem(Current, face_profile_id,
                                             embedding).ok) :
            \E o \in {add_vector(Current, redis_client, store,
                                 face_profile_id, embedding, TRUE, outcome)} :
                /\ ntotal(o.eng) <= MaxStored
                /\ Returns(o)
                /\ call' = Call("add_vector", face_profile_id, embedding, 0,
                                None, <<>>)
                /\ UNCHANGED <<redis_client, serverVars>>

\* Enrolment and duplicate detection across restarts of the process
NextDuplicate ==
    \/ Construct
    \/ AddVectorStored
    \/ CheckDuplicate

SpecDuplicate == Init /\ [][NextDuplicate]_vars

\* raw squared distances, past the 4.0 two unit vectors can be apart, and
\* the similarities on both sides of each threshold
Distances == 0..(4 * Scale * Scale + Scale)
BoundarySimilarities ==
    {0, MEDIUM_CONFIDENCE_THRESHOLD - 1, MEDIUM_CONFIDENCE_THRESHOLD,
     HIGH_CONFIDENCE_THRESHOLD - 1, HIGH_CONFIDENCE_THRESHOLD, SimScale}

\* the body of the loop of search_similar on one candidate: the distance
\* scored and classified into a match record
ScoreCandidate ==
    \E face_profile_id \in ProfileIds, dist \in Distances :
        /\ ret' = Ret("results", <<SearchResult(face_profile_id, dist)>>)
        /\ call' = Call("score", face_profile_id, <<>>, 0, None, <<>>)
        /\ saves' = <<>>
        /\ UNCHANGED <<engine, store, serverVars>>

\* the tier of a similarity, whatever distance it came from
ClassifySimilarity ==
    \E similarity \in BoundarySimilarities :
        /\ ret' = Ret("tier", [similarity |-> similarity,
                               confidence_level |-> Confidence(similarity)])
        /\ call' = Call("classify", None, <<>>, 0, None, <<>>)
        /\ saves' = <<>>
        /\ UNCHANGED <<engine, store, serverVars>>

\* The metric of search_similar on its own
NextMetric ==
    \/ ScoreCandidate
    \/ ClassifySimilarity

SpecMetric == Init /\ [][NextMetric]_vars

----------------------------------------------------------------------------
(* The server loop: one action per kind of line                            *)

Reading == server = "running" /\ nlines < MaxLines

\* "if not line: continue"
ServeBlank ==
    /\ server = "running"
    /\ line' = BlankLine
    /\ UNCHANGED <<engine, store, call, ret, saves, server, nlines,
                   nresponses, response>>

\* json.loads raises JSONDecodeError
ServeUnparseable ==
    /\ Reading
    /\ line' = UnparseableLine
    /\ nlines' = nlines + 1
    /\ response' = Response(None, "error", -32700, "Parse error",
                            Ret("none", FALSE))
    /\ nresponses' = nresponses + 1
    /\ UNCHANGED <<engine, store, call, ret, saves, server>>

\* an exception that is no JSONDecodeError leaves the loop: request.get
\* raises AttributeError on a JSON value that is no object
ServeValue ==
    /\ Reading
    /\ line' = ValueLine
    /\ nlines' = nlines + 1
    /\ server' = "stopped"
    /\ UNCHANGED <<engine, store, call, ret, saves, nresponses, response>>

\* "method not in self.methods" raises TypeError, outside the try of
\* handle_request, on a method that cannot be hashed
ServeUnhashable ==
    /\ Reading
    /\ \E request \in {r \in RequestLines : r.method = UnhashableMethod} :
          line' = request
    /\ nlines' = nlines + 1
    /\ server' = "stopped"
    /\ UNCHANGED <<engine, store, call, ret, saves, nresponses, response>>

ServeRequest ==
    /\ Reading
    /\ \E request \in {r \in RequestLines : r.method # UnhashableMethod} :
          \E h \in handle_request(request, Current, redis_client, store) :
             /\ line' = request
             /\ SetEngine(h.o.eng)
             /\ store' = h.o.store
             /\ response' = h.response
    /\ nlines' = nlines + 1
    /\ nresponses' = nresponses + 1
    /\ UNCHANGED <<redis_client, call, ret, saves, server>>

NextServer ==
    \/ ServeBlank
    \/ ServeUnparseable
    \/ ServeValue
    \/ ServeUnhashable
    \/ ServeRequest

SpecServer == Init /\ [][NextServer]_vars

\* JSONRPCServer() in a new process while the database answers: the
\* engine is built over the snapshot the database holds
StartServer ==
    /\ redis_client' = "connected"
    /\ SetEngine(LoadFromRedis(EmptyEngine, store, "none").eng)
    /\ server' = "running"
    /\ line' = NoLine
    /\ response' = NoResponse
    /\ saves' = <<>>
    /\ UNCHANGED <<store, call, ret, nlines, nresponses>>

\* a request served by an engine that has its client, while the database
\* accepts every write: no save the handler makes returns False
ServeStored ==
    /\ Reading
    /\ redis_client = "connected"
    /\ \E request \in {r \in RequestLines : r.method # UnhashableMethod} :
          \E h \in handle_request(request, Current, redis_client, store) :
             /\ \A i \in DOMAIN h.o.saves : h.o.saves[i]
             /\ line' = request
             /\ SetEngine(h.o.eng)
             /\ store' = h.o.store
             /\ response' = h.response
             /\ saves' = h.o.saves
    /\ nlines' = nlines + 1
    /\ nresponses' = nresponses + 1
    /\ UNCHANGED <<redis_client, call, ret, server>>

\* The server over a database that stays reachable
NextServerStored ==
    \/ StartServer
    \/ ServeUnparseable
    \/ ServeStored

SpecServerStored == Init /\ [][NextServerStored]_vars

----------------------------------------------------------------------------
(* Properties                                                              *)

CurrentNext == Engine(index', id_map', reverse_map')

\* the step is a call of the public operation op: every step but the loss
\* of the mapping key sets call to the call it makes
Called(op) == call'.op = op /\ ~MapKeyLost
Bound(eng) == DOMAIN eng.reverse_map
IsEmpty(eng) ==
    eng.index = <<>> /\ eng.id_map = EmptyDict /\ DOMAIN eng.reverse_map = {}

\* the stored vector an external id is bound to
VectorOf(eng, face_profile_id) ==
    Reconstruct(eng, eng.reverse_map[face_profile_id])

ValidEmbeddings == {e \in Embeddings : Len(e) = dimension}

\* the ids of the match records a search or duplicate check returned
ReturnedIds(r) ==
    IF r.kind = "results"
    THEN {r.val[i].face_profile_id : i \in DOMAIN r.val}
    ELSE IF r.kind = "duplicate"
    THEN {r.val.best_match[i].face_profile_id : i \in DOMAIN r.val.best_match}
    ELSE {}

\* C1: in every reachable state the forward map and the reverse map are
\* inverses of each other and the number of bound external ids equals the
\* vector count of the search structure.
C1_IdentityMapBijection ==
    /\ \A i, j \in DOMAIN id_map : id_map[i][1] = id_map[j][1] => i = j
    /\ Values(id_map) = DOMAIN reverse_map
    /\ \A x \in DOMAIN reverse_map :
          /\ reverse_map[x] \in Keys(id_map)
          /\ Get(id_map, reverse_map[x]) = x
    /\ \A pos \in Keys(id_map) : reverse_map[Get(id_map, pos)] = pos
    /\ Cardinality(DOMAIN reverse_map) = Len(index)

\* C2: an engine constructed over a database that holds the structure key
\* but not the mapping key starts empty: no vectors and empty maps.
C2_CorruptLoadStartsEmpty ==
    [][(Called("__init__") /\ index_key \in DOMAIN store
           /\ map_key \notin DOMAIN store)
          => IsEmpty(CurrentNext)]_vars

\* C3: add_vector and search_similar called with an embedding of the wrong
\* length fail with a typed InvalidInput error, not with their ordinary
\* return values.
C3_DimensionMismatchIsTyped ==
    (call.op \in {"add_vector", "search_similar"}
        /\ Len(call.embedding) # dimension)
    => (ret.kind = "error" /\ ret.val = "InvalidInput")

\* C4: a search or duplicate check with exclude_id = X never returns a
\* match record whose external id is X.
C4_ExcludedIdNeverReturned ==
    (call.op \in {"search_similar", "check_duplicate"}
        /\ call.exclude_id # None)
    => call.exclude_id \notin ReturnedIds(ret)

\* C6: add_vector on an external id that is already bound returns False and
\* leaves the vector count and the number of bound ids as they were.
C6_InsertBoundIdRejected ==
    [][(Called("add_vector") /\ call'.face_profile_id \in Bound(Current))
          => /\ ret' = Ret("bool", FALSE)
             /\ Len(index') = Len(index)
             /\ Len(id_map') = Len(id_map)
             /\ Cardinality(DOMAIN reverse_map')
                   = Cardinality(DOMAIN reverse_map)]_vars

C6_Witness ==
    /\ call.op = "add_vector"
    /\ Len(call.embedding) = dimension
    /\ call.face_profile_id \in Bound(Current)
    /\ ret = Ret("bool", FALSE)

\* C7: remove_vector on a bound id X succeeds, lowers the vector count by
\* exactly one and unbinds X, and no search returns an id that is not bound.
C7_RemoveLowersCountByOne ==
    [][/\ (Called("remove_vector")
              /\ call'.face_profile_id \in Bound(Current))
             => /\ ret' = Ret("bool", TRUE)
                /\ Len(index') = Len(index) - 1
                /\ call'.face_profile_id \notin Bound(CurrentNext)
                /\ call'.face_profile_id \notin Values(id_map')
       /\ (Called("search_similar") \/ Called("check_duplicate"))
             => ReturnedIds(ret') \subseteq Bound(CurrentNext)]_vars

\* C8: after a successful remove_vector every other external id that was
\* bound is still bound, to a position holding the vector it had before, so
\* every query gives it the same distance and similarity, and a search wide
\* enough to return everything returns it.
C8_RemoveKeepsSurvivors ==
    [][(Called("remove_vector") /\ ret' = Ret("bool", TRUE))
          => \A y \in Bound(Current) \ {call'.face_profile_id} :
                /\ y \in Bound(CurrentNext)
                /\ Get(id_map', reverse_map'[y]) = y
                /\ VectorOf(CurrentNext, y) = VectorOf(Current, y)
                /\ \A q \in ValidEmbeddings :
                     \A results \in SearchSimilarResults(CurrentNext, q,
                                        MaxVectors, None) :
                        \E i \in DOMAIN results :
                           results[i] = SearchResult(y,
                               SqDist(Normalize(q), VectorOf(Current, y)))]_vars

C8_Witness ==
    /\ call.op = "remove_vector"
    /\ ret = Ret("bool", TRUE)
    /\ Bound(Current) # {}

\* the first record of each external id, in order of first occurrence
RECURSIVE FirstOccurrences(_, _)
FirstOccurrences(face_profiles, seen) ==
    IF face_profiles = <<>> THEN <<>>
    ELSE IF face_profiles[1][1] \in seen
         THEN FirstOccurrences(Tail(face_profiles), seen)
         ELSE <<face_profiles[1]>>
                 \o FirstOccurrences(Tail(face_profiles),
                                     seen \cup {face_profiles[1][1]})

HasDimension(record) == Len(record[2]) = dimension

\* the engine whose positions 0..n-1 hold the given records in order
Enrolled(records) ==
    Engine([i \in DOMAIN records |-> Normalize(records[i][2])],
           [i \in DOMAIN records |-> <<i - 1, records[i][1]>>],
           [x \in {records[i][1] : i \in DOMAIN records} |->
               (CHOOSE i \in DOMAIN records : records[i][1] = x) - 1])

C10_FailedSaveKeepsMemory ==
    [][/\ (Called("add_vector") /\ saves' # <<TRUE>>)
             => LET o == add_vector(Current, redis_client, store,
                                    call'.face_profile_id, call'.embedding,
                                    TRUE, "ok")
                IN  CurrentNext = o.eng /\ ret' = o.ret /\ store' = store
       /\ (Called("remove_vector") /\ saves' # <<TRUE>>)
             => LET o == remove_vector(Current, redis_client, store,
                                       call'.face_profile_id, TRUE, "ok")
                IN  CurrentNext = o.eng /\ ret' = o.ret /\ store' = store
       /\ (Called("rebuild_from_database") /\ saves' # <<TRUE>>)
             => LET o == rebuild_from_database(Current, redis_client, store,
                                               call'.face_profiles, "ok")
                IN  CurrentNext = o.eng /\ ret' = o.ret /\ store' = store
       /\ (Called("save_to_redis") /\ saves' # <<TRUE>>)
             => /\ ret' = Ret("bool", FALSE)
                /\ CurrentNext = Current
                /\ store' = store]_vars

C10_Witness ==
    /\ call.op \in {"add_vector", "remove_vector", "rebuild_from_database"}
    /\ redis_client = "connected"
    /\ saves = <<FALSE>>
    /\ ret = Ret("bool", TRUE)
    /\ store # PipelineExecute(Current)

\* C5: every non-empty line is answered with exactly one response and the
\* loop goes on reading; an unparseable line is answered with a parse
\* error.
C5_EveryLineAnswered ==
    /\ server = "running"
    /\ nresponses = nlines
    /\ line.kind = "unparseable" => response.code = -32700

\* a snapshot is absent, or present under both keys with the vector count
\* its save recorded and as many mappings as vectors
SnapshotConsistent(db) ==
    \/ DOMAIN db = {}
    \/ /\ DOMAIN db = {index_key, map_key}
       /\ db[map_key].total = db[index_key].ntotal
       /\ Len(db[index_key].xb) = db[index_key].ntotal * db[index_key].d
       /\ Len(db[map_key].id_map) = db[index_key].ntotal
       /\ Cardinality(DOMAIN db[map_key].reverse_map) = db[index_key].ntotal

\* C11: no call on the engine, whether its save succeeds or fails, takes
\* the database from a consistent snapshot to an inconsistent one: the
\* snapshot stays absent, or present under both keys, written by one save,
\* with as many mappings as vectors.
C11_SnapshotAbsentOrConsistent ==
    [][(~MapKeyLost /\ SnapshotConsistent(store))
          => SnapshotConsistent(store')]_vars

\* the step is a call whose last save_to_redis returned True
SavedOk == ~MapKeyLost /\ saves' # <<>> /\ saves'[Len(saves')]

\* C12: after a successful save, the engine a new process loads from the
\* database has the vector count, the dimension, both maps and the vector
\* at every position of the engine that saved, so every query is at the
\* same distance from every bound id in both.
C12_SaveLoadRoundTrip ==
    [][SavedOk
          => \A loaded \in {LoadFromRedis(EmptyEngine, store', "none")} :
             /\ loaded.ok
             /\ ntotal(loaded.eng) = Len(index')
             /\ store'[index_key].d = dimension
             /\ store'[map_key].dimension = dimension
             /\ loaded.eng.id_map = id_map'
             /\ loaded.eng.reverse_map = reverse_map'
             /\ \A pos \in 0..(Len(index') - 1) :
                   Reconstruct(loaded.eng, pos) = Reconstruct(CurrentNext, pos)
             /\ \A q \in ValidEmbeddings, x \in Bound(CurrentNext) :
                   SqDist(Normalize(q), VectorOf(loaded.eng, x))
                      = SqDist(Normalize(q), VectorOf(CurrentNext, x))]_vars

C12_Witness ==
    /\ saves = <<TRUE>>
    /\ Len(index) = 2
    /\ Cardinality(Bound(Current)) = 2
    /\ index[1] # index[2]
    /\ LoadFromRedis(EmptyEngine, store, "none").eng = Current

\* C13: whatever the database answered before, at construction or at a
\* save, every add_vector or remove_vector that succeeds and every
\* rebuild_from_database attempts its save again, and the attempt that
\* succeeds leaves the current index in the database.
C13_EverySaveRetried ==
    [][(\/ /\ Called("add_vector") \/ Called("remove_vector")
           /\ ret' = Ret("bool", TRUE)
        \/ Called("rebuild_from_database"))
          => /\ Len(saves') = 1
             /\ saves' = <<TRUE>> => store' = PipelineExecute(CurrentNext)]_vars

\* similarity of two orthogonal unit vectors: squared distance 2
Orthogonal(u, v) == SqDist(u, v) = 2 * Scale * Scale

\* C14: check_duplicate returns as best_match the first record of
\* search_similar with k = 1 and the same exclude_id, None when that search
\* is empty, and is_duplicate exactly when there is a best match of
\* similarity >= HIGH_CONFIDENCE_THRESHOLD; an embedding equal to the one
\* of a bound id other than exclude_id gives True, an embedding orthogonal
\* to every bound one gives False.
C14_DuplicateIsTopMatchAboveHigh ==
    (call.op = "check_duplicate" /\ Len(call.embedding) = dimension)
    => /\ \E results \in SearchSimilarResults(Current, call.embedding, 1,
                                              call.exclude_id) :
             /\ results = <<>> => ret.val.best_match = <<>>
             /\ results # <<>> => ret.val.best_match = <<results[1]>>
       /\ ret.val.is_duplicate
             <=> /\ ret.val.best_match # <<>>
                 /\ ret.val.best_match[1].similarity
                       >= HIGH_CONFIDENCE_THRESHOLD
       /\ (\E x \in Bound(Current) \ {call.exclude_id} :
              VectorOf(Current, x) = Normalize(call.embedding))
             => ret.val.is_duplicate
       /\ (\A x \in Bound(Current) :
              Orthogonal(VectorOf(Current, x), Normalize(call.embedding)))
             => ~ret.val.is_duplicate

\* C15: a search_similar for the embedding that the add_vector just before
\* it enrolled with success, not excluding that id, returns that id as its
\* first record, with similarity >= 0.999.
C15_SelfMatchIsTop ==
    [][(/\ call.op = "add_vector"
        /\ ret = Ret("bool", TRUE)
        /\ Called("search_similar")
        /\ call'.embedding = call.embedding
        /\ call'.exclude_id # call.face_profile_id)
          => /\ ret'.val # <<>>
             /\ ret'.val[1].face_profile_id = call.face_profile_id
             /\ ret'.val[1].similarity * 1000 >= 999 * SimScale]_vars

\* the tier the thresholds 0.85 and 0.70 give a similarity
TierOf(similarity) ==
    IF similarity * 100 >= 85 * SimScale THEN "high"
    ELSE IF similarity * 100 >= 70 * SimScale THEN "medium"
    ELSE "low"

\* C16: a match record's similarity is max(0, 1 - d/4) of its raw squared
\* distance d, so it lies in [0, 1], and its confidence level is high from
\* 0.85 up, medium from 0.70 up to 0.85 excluded, low below: 0.85 is high,
\* 0.84999 medium, 0.70 medium and 0.69999 low.
C16_SimilarityAndTiers ==
    /\ call.op = "score"
          => \A i \in DOMAIN ret.val :
                /\ ret.val[i].similarity * 4 * Scale * Scale
                      = Max(0, (4 * Scale * Scale - ret.val[i].distance)
                                  * SimScale)
                /\ ret.val[i].similarity \in 0..SimScale
                /\ ret.val[i].confidence_level = TierOf(ret.val[i].similarity)
    /\ call.op = "classify"
          => /\ ret.val.confidence_level = TierOf(ret.val.similarity)
             /\ ret.val.similarity = (85 * SimScale) \div 100
                   => ret.val.confidence_level = "high"
             /\ ret.val.similarity = (85 * SimScale) \div 100 - 1
                   => ret.val.confidence_level = "medium"
             /\ ret.val.similarity = (70 * SimScale) \div 100
                   => ret.val.confidence_level = "medium"
             /\ ret.val.similarity = (70 * SimScale) \div 100 - 1
                   => ret.val.confidence_level = "low"

C16_Witness ==
    /\ call.op = "classify"
    /\ ret.val.similarity = (85 * SimScale) \div 100 - 1
    /\ ret.val.confidence_level = "medium"

\* the step takes a non-empty line from stdin; it answers it when it
\* writes a response
TakesLine == nlines' = nlines + 1
Answers == nresponses' = nresponses + 1

\* C17: a response holds a result or an error, never both, and the id of
\* the request it answers; a request whose method is not an operation of
\* the server is answered with error -32601 and leaves the engine and the
\* database alone; a line that is not JSON is answered with error -32700;
\* a handler that raises is answered with error -32603 and its message.
C17_ResponsesAndErrorCodes ==
    [][TakesLine
          => /\ Answers
                   => /\ \/ response'.keys = {"jsonrpc", "id", "result"}
                         \/ response'.keys = {"jsonrpc", "id", "error"}
                      /\ line'.kind = "request" => response'.id = line'.id
             /\ (line'.kind = "request" /\ line'.method \notin Methods)
                   => /\ Answers
                      /\ "error" \in response'.keys
                      /\ response'.code = -32601
                      /\ CurrentNext = Current
                      /\ store' = store
             /\ line'.kind = "unparseable"
                   => /\ Answers
                      /\ "error" \in response'.keys
                      /\ response'.code = -32700
             /\ (/\ line'.kind = "request"
                 /\ line'.method \in Methods
                 /\ ~(Required(line'.method) \subseteq line'.params.keys))
                   => /\ Answers
                      /\ "error" \in response'.keys
                      /\ response'.code = -32603
                      /\ response'.message # ""]_vars

\* the positions the bound external ids of an engine are at
Positions(eng) == {eng.reverse_map[x] : x \in Bound(eng)}

\* C18: a remove_vector that succeeds on an index of n vectors leaves the
\* other bound ids, and only them, at the positions 0..n-2, one each, in
\* the order they were in before.
C18_RemoveRenumbersDensely ==
    [][(Called("remove_vector") /\ ret' = Ret("bool", TRUE))
          => /\ Bound(CurrentNext) = Bound(Current) \ {call'.face_profile_id}
             /\ Positions(CurrentNext) = 0..(Len(index) - 2)
             /\ Cardinality(Bound(CurrentNext)) = Len(index) - 1
             /\ \A a, b \in Bound(CurrentNext) :
                   reverse_map'[a] < reverse_map'[b]
                      <=> reverse_map[a] < reverse_map[b]]_vars

\* C19: an add_vector that succeeds binds its id to the position equal to
\* the vector count before the call, holding the unit vector of its
\* embedding, raises the count by exactly one, and leaves every id bound
\* before at its position with its vector.
C19_InsertAppendsAtNextPosition ==
    [][(Called("add_vector") /\ ret' = Ret("bool", TRUE))
          => /\ Len(index') = Len(index) + 1
             /\ reverse_map'[call'.face_profile_id] = Len(index)
             /\ Get(id_map', Len(index)) = call'.face_profile_id
             /\ Reconstruct(CurrentNext, Len(index))
                   = Normalize(call'.embedding)
             /\ Bound(CurrentNext)
                   = Bound(Current) \cup {call'.face_profile_id}
             /\ \A y \in Bound(Current) :
                   /\ reverse_map'[y] = reverse_map[y]
                   /\ Get(id_map', reverse_map'[y]) = y
                   /\ VectorOf(CurrentNext, y) = VectorOf(Current, y)]_vars

C19_Witness ==
    /\ call.op = "add_vector"
    /\ ret = Ret("bool", TRUE)
    /\ Len(index) = 2
    /\ Cardinality(Bound(Current)) = 2
    /\ reverse_map[call.face_profile_id] = 1
    /\ index[1] # index[2]

\* C20: search_similar with a valid query returns no external id twice,
\* its records nearest first (distance non-decreasing, similarity
\* non-increasing), and exactly min(k, number of bound ids other than
\* exclude_id) of them, hence none on an empty index: the 2k candidates it
\* fetches are enough to fill k results.
C20_SearchReturnsKBestDistinct ==
    (call.op = "search_similar" /\ Len(call.embedding) = dimension)
    => /\ \A i, j \in DOMAIN ret.val :
             ret.val[i].face_profile_id = ret.val[j].face_profile_id => i = j
       /\ \A i, j \in DOMAIN ret.val :
             i <= j => /\ ret.val[i].distance <= ret.val[j].distance
                       /\ ret.val[i].similarity >= ret.val[j].similarity
       /\ Len(ret.val)
             = Min(call.k, Cardinality(Bound(Current) \ {call.exclude_id}))
       /\ Len(index) = 0 => ret.val = <<>>

\* the step is a call that reports failure or only reads
FailsOrReads ==
    \/ Called("add_vector") /\ ret' = Ret("bool", FALSE)
    \/ Called("remove_vector") /\ ret' = Ret("bool", FALSE)
    \/ Called("search_similar")
    \/ Called("check_duplicate")
    \/ Called("get_stats")

\* C21: an add_vector or remove_vector that returns False and every
\* search_similar, check_duplicate and get_stats leave the index, both
\* maps and the database as they were and make no save.
C21_FailuresAndReadsChangeNothing ==
    [][FailsOrReads
          => /\ index' = index
             /\ id_map' = id_map
             /\ reverse_map' = reverse_map
             /\ store' = store
             /\ saves' = <<>>]_vars

C21_Witness ==
    /\ call.op = "remove_vector"
    /\ ret = Ret("bool", FALSE)
    /\ redis_client = "connected"
    /\ Len(index) = 1
    /\ Bound(Current) = ProfileIds \ {call.face_profile_id}
    /\ store = PipelineExecute(Current)

\* the step serves an add_vector, remove_vector or rebuild_from_database
\* request whose response reports success
MutationSucceeds ==
    /\ TakesLine
    /\ Answers
    /\ line'.kind = "request"
    /\ line'.method \in {"add_vector", "remove_vector",
                         "rebuild_from_database"}
    /\ "result" \in response'.keys
    /\ response'.result = Ret("bool", TRUE)

\* C22: while the database is reachable and accepts every write, after
\* every add_vector, remove_vector or rebuild_from_database request that
\* reports success the database holds the index and the maps the engine
\* has in memory.
C22_SnapshotFollowsRequests ==
    [][MutationSucceeds
          => /\ DOMAIN store' = {index_key, map_key}
             /\ DeserializeIndex(store'[index_key]) = index'
             /\ store'[index_key].ntotal = Len(index')
             /\ store'[map_key].id_map = id_map'
             /\ store'[map_key].reverse_map = reverse_map']_vars

C22_Witness ==
    /\ line.kind = "request"
    /\ line.method = "remove_vector"
    /\ response.result = Ret("bool", TRUE)
    /\ saves = <<TRUE>>
    /\ Len(index) = 1
    /\ DeserializeIndex(store[index_key]) = index
    /\ store[map_key].id_map = id_map

====
